---- MODULE Spec2Model ----
(***************************************************************************)
(* The Billboard Hot 100 pipeline: billboard_import.py (the Importer) and  *)
(* export_to_html.py (the Exporter), both working on the hot100 relation.  *)
(*                                                                         *)
(* A Python str is a sequence of one-character strings.  None is the       *)
(* one-element tuple holding the token "None", which is no character, so   *)
(* that it is comparable with every str and equal to none.                 *)
(***************************************************************************)
EXTENDS Integers, Sequences, FiniteSets, Bags, TLC

VARIABLES
    prog,           \* which script runs: "importer" or "exporter"
    pc,             \* position of main() in the script
    run,            \* number of the invocation of the script (1, 2)
    connection,     \* "none", "open" or "closed"
    cursor,         \* "none", "open" or "closed"
    raised,         \* exception leaving main(): "none" or "SystemExit"
    hot100,         \* the committed rows of the relation, a bag of <<song, artist>>
    pending,        \* rows inserted by the open transaction, a bag
    json_files,     \* the content of the files named on the command line
    fi,             \* index in json_files of the file main() is at
    ei,             \* index in data['data'] of the entry process_json_file is at
    caught,         \* the except clause that caught an exception: "none"; in process_json_file
                    \* "json" or "exception"; in the Exporter's main() "Error" or "Exception"
    logged,         \* per file, what was logged for each cursor.execute call made for it
    commits,        \* per file, the number of connection.commit calls made after it
    hot100_before,  \* hot100 when the running invocation started
    fetched,        \* the result of cursor.fetchall()
    ri,             \* index in fetched of the row the Exporter is at
    table_rows,     \* the rows create_table_row has rendered
    output,         \* the file at args.output
    output_before   \* the file at args.output when the Exporter started

vars == <<prog, pc, run, connection, cursor, raised, hot100, pending, json_files,
          fi, ei, caught, logged, commits, hot100_before, fetched, ri,
          table_rows, output, output_before>>

impVars == <<json_files, fi, ei, caught, logged, commits, pending>>
expVars == <<fetched, ri, table_rows, output, output_before>>

----------------------------------------------------------------------------
(* Bounds *)

MaxFiles == 2       \* files on the command line
MaxEntries == 3     \* entries in all the files together
MaxRows == 3        \* rows of the relation when a script starts
MaxLen == 3         \* characters of an artist or song given to create_table_row
MaxRuns == 2        \* invocations of the Importer on the same input

----------------------------------------------------------------------------
(* Values *)

None == <<"None">>
Missing == <<"Missing">>

RECURSIVE SeqsUpTo(_, _)
SeqsUpTo(S, n) ==
    IF n = 0 THEN {<<>>}
    ELSE LET shorter == SeqsUpTo(S, n - 1)
         IN  shorter \cup {Append(s, x) : s \in {t \in shorter : Len(t) = n - 1}, x \in S}

SeqToSet(s) == {s[i] : i \in 1..Len(s)}

----------------------------------------------------------------------------
(* The Importer's input *)

\* A JSON object of a data list: each key holds a str or is Missing.
Entry(song, artist) == [obj |-> TRUE, song |-> song, artist |-> artist]
\* A JSON value of a data list that is no object (a number, a string).
NotAnObject == [obj |-> FALSE, song |-> Missing, artist |-> Missing]

CompleteEntries == {Entry(<<"a">>, <<"x">>), Entry(<<"a">>, <<"y">>), Entry(<<"b">>, <<"x">>)}
PartialEntries == {Entry(Missing, <<"x">>)}

\* A file that json.load parses, and one it does not.
JsonFile(entries) == [valid |-> TRUE, data |-> entries]
InvalidJson == [valid |-> FALSE, data |-> <<>>]

\* the files holding at most n of the given entries
FilesOver(entries, n) ==
    {InvalidJson} \cup {JsonFile(d) : d \in SeqsUpTo(entries, n)}

\* the lists of at most k files holding at most n of the given entries together
RECURSIVE FileListsOver(_, _, _)
FileListsOver(entries, k, n) ==
    IF k = 0 THEN {<<>>}
    ELSE {<<>>} \cup
         UNION {{<<f>> \o rest : rest \in FileListsOver(entries, k - 1, n - Len(f.data))} :
                f \in FilesOver(entries, n)}

\* entry.get(key): the value, or None when the key is absent
get(entry, key) ==
    LET v == IF key = "song" THEN entry.song ELSE entry.artist
    IN  IF v = Missing THEN None ELSE v

\* the parameters of the INSERT statement
InsertParams(entry) == <<get(entry, "song"), get(entry, "artist")>>

----------------------------------------------------------------------------
(* The hot100 relation *)

\* The uniqueness constraint over (song, artist), as MySQL applies it: a row
\* holding NULL never collides.
Duplicate(row, table) ==
    /\ None \notin SeqToSet(row)
    /\ BagIn(row, table)

AddRow(row, table) == table (+) SetToBag({row})

\* what the connection's own statements see
Visible == hot100 (+) pending

----------------------------------------------------------------------------
(* Start of a script *)

Zeros(n) == [i \in 1..n |-> 0]
NoLogs(n) == [i \in 1..n |-> <<>>]

NoFile == [kind |-> "absent", rows |-> <<>>]
OldFile == [kind |-> "old", rows |-> <<>>]

ImporterTables == {EmptyBag, SetToBag({<<(<<"a">>), (<<"x">>)>>})}

InitImporter(inputs) ==
    /\ prog = "importer"
    /\ pc = "connect"
    /\ run = 1
    /\ connection = "none"
    /\ cursor = "none"
    /\ raised = "none"
    /\ hot100 \in ImporterTables
    /\ pending = EmptyBag
    /\ json_files \in inputs
    /\ fi = 1
    /\ ei = 1
    /\ caught = "none"
    /\ logged = NoLogs(Len(json_files))
    /\ commits = Zeros(Len(json_files))
    /\ hot100_before = hot100
    /\ fetched = <<>>
    /\ ri = 1
    /\ table_rows = <<>>
    /\ output = NoFile
    /\ output_before = NoFile

\* get_db_connection succeeds, then connection.cursor()
Connect ==
    /\ pc = "connect"
    /\ connection' = "open"
    /\ cursor' = "open"
    /\ pc' = IF prog = "importer" THEN "for_file" ELSE "query"
    /\ UNCHANGED <<prog, run, raised, hot100, hot100_before>>
    /\ UNCHANGED impVars
    /\ UNCHANGED expVars

\* get_db_connection catches the connector's Error and calls sys.exit(1)
ConnectError ==
    /\ pc = "connect"
    /\ raised' = "SystemExit"
    /\ pc' = "exited"
    /\ UNCHANGED <<prog, run, connection, cursor, hot100, hot100_before>>
    /\ UNCHANGED impVars
    /\ UNCHANGED expVars

\* the finally clause of main(), then the end of the process
Finally ==
    /\ pc = "finally"
    /\ cursor' = "closed"
    /\ connection' = "closed"
    /\ pc' = "exited"
    /\ UNCHANGED <<prog, run, raised, hot100, hot100_before>>
    /\ UNCHANGED impVars
    /\ UNCHANGED expVars

\* the exit code of the process
ExitCode == IF raised = "SystemExit" THEN 1 ELSE 0

----------------------------------------------------------------------------
(* The Importer *)

\* for json_file in json_files: the next file, or the end of the loop
ImpNextFile ==
    /\ prog = "importer"
    /\ pc = "for_file"
    /\ pc' = IF fi <= Len(json_files) THEN "open" ELSE "finally"
    /\ caught' = "none"
    /\ ei' = 1
    /\ UNCHANGED <<prog, run, connection, cursor, raised, hot100, hot100_before>>
    /\ UNCHANGED <<json_files, fi, logged, commits, pending>>
    /\ UNCHANGED expVars

\* ImpLoad, were the JSONDecodeError to reach the except clause of main()
ImpLoadRaises ==
    /\ prog = "importer"
    /\ pc = "open"
    /\ IF json_files[fi].valid
       THEN /\ caught' = caught
            /\ pc' = IF json_files[fi].data = <<>> THEN "commit" ELSE "for_entry"
       ELSE /\ caught' = "json"
            /\ pc' = "finally"
    /\ UNCHANGED <<prog, run, connection, cursor, raised, hot100, hot100_before>>
    /\ UNCHANGED <<json_files, fi, ei, logged, commits, pending>>
    /\ UNCHANGED expVars

\* process_json_file: open and json.load, data.get('data', [])
ImpLoad ==
    /\ prog = "importer"
    /\ pc = "open"
    /\ IF json_files[fi].valid
       THEN /\ caught' = caught
            /\ pc' = IF json_files[fi].data = <<>> THEN "commit" ELSE "for_entry"
       ELSE /\ caught' = "json"
            /\ pc' = "commit"
    /\ UNCHANGED <<prog, run, connection, cursor, raised, hot100, hot100_before>>
    /\ UNCHANGED <<json_files, fi, ei, logged, commits, pending>>
    /\ UNCHANGED expVars

\* the position after the entry at ei: the next entry, or the return to main()
AfterEntry == IF ei < Len(json_files[fi].data) THEN "for_entry" ELSE "commit"

\* ImpInsert, were a uniqueness violation to end the file
ImpInsertDuplicateEndsFile ==
    /\ prog = "importer"
    /\ pc = "for_entry"
    /\ json_files[fi].data[ei].obj
    /\ LET row == InsertParams(json_files[fi].data[ei])
       IN  IF Duplicate(row, Visible)
           THEN /\ pending' = pending
                /\ logged' = [logged EXCEPT ![fi] = Append(@, "Duplicate entry skipped")]
                /\ pc' = "commit"
           ELSE /\ pending' = AddRow(row, pending)
                /\ logged' = [logged EXCEPT ![fi] = Append(@, "Inserted")]
                /\ pc' = AfterEntry
    /\ ei' = ei + 1
    /\ UNCHANGED <<prog, run, connection, cursor, raised, hot100, hot100_before>>
    /\ UNCHANGED <<json_files, fi, caught, commits>>
    /\ UNCHANGED expVars

\* ImpInsert, were the row inserted whether hot100 holds it or not
ImpInsertNoKey ==
    /\ prog = "importer"
    /\ pc = "for_entry"
    /\ json_files[fi].data[ei].obj
    /\ pending' = AddRow(InsertParams(json_files[fi].data[ei]), pending)
    /\ logged' = [logged EXCEPT ![fi] = Append(@, "Inserted")]
    /\ ei' = ei + 1
    /\ pc' = AfterEntry
    /\ UNCHANGED <<prog, run, connection, cursor, raised, hot100, hot100_before>>
    /\ UNCHANGED <<json_files, fi, caught, commits>>
    /\ UNCHANGED expVars

\* one iteration of the entry loop: cursor.execute inserts the row, or raises
\* IntegrityError 1062, which is logged at debug level
ImpInsert ==
    /\ prog = "importer"
    /\ pc = "for_entry"
    /\ json_files[fi].data[ei].obj
    /\ LET row == InsertParams(json_files[fi].data[ei])
       IN  IF Duplicate(row, Visible)
           THEN /\ pending' = pending
                /\ logged' = [logged EXCEPT ![fi] = Append(@, "Duplicate entry skipped")]
           ELSE /\ pending' = AddRow(row, pending)
                /\ logged' = [logged EXCEPT ![fi] = Append(@, "Inserted")]
    /\ ei' = ei + 1
    /\ pc' = AfterEntry
    /\ UNCHANGED <<prog, run, connection, cursor, raised, hot100, hot100_before>>
    /\ UNCHANGED <<json_files, fi, caught, commits>>
    /\ UNCHANGED expVars

\* ImpInsertError, were the fault to end the file
ImpInsertErrorEndsFile ==
    /\ prog = "importer"
    /\ pc = "for_entry"
    /\ json_files[fi].data[ei].obj
    /\ logged' = [logged EXCEPT ![fi] = Append(@, "Error inserting record")]
    /\ ei' = ei + 1
    /\ pc' = "commit"
    /\ UNCHANGED <<prog, run, connection, cursor, raised, hot100, hot100_before>>
    /\ UNCHANGED <<json_files, fi, caught, commits, pending>>
    /\ UNCHANGED expVars

\* one iteration of the entry loop: cursor.execute raises another IntegrityError
\* or another Error, which is logged at error level
ImpInsertError ==
    /\ prog = "importer"
    /\ pc = "for_entry"
    /\ json_files[fi].data[ei].obj
    /\ logged' = [logged EXCEPT ![fi] = Append(@, "Error inserting record")]
    /\ ei' = ei + 1
    /\ pc' = AfterEntry
    /\ UNCHANGED <<prog, run, connection, cursor, raised, hot100, hot100_before>>
    /\ UNCHANGED <<json_files, fi, caught, commits, pending>>
    /\ UNCHANGED expVars

\* one iteration of the entry loop: entry.get raises AttributeError, which the
\* except Exception clause of process_json_file catches
ImpEntryException ==
    /\ prog = "importer"
    /\ pc = "for_entry"
    /\ ~ json_files[fi].data[ei].obj
    /\ caught' = "exception"
    /\ pc' = "commit"
    /\ UNCHANGED <<prog, run, connection, cursor, raised, hot100, hot100_before>>
    /\ UNCHANGED <<json_files, fi, ei, logged, commits, pending>>
    /\ UNCHANGED expVars

\* ImpCommit, were connection.commit() called after the loop over the files
ImpCommitAfterLoop ==
    /\ prog = "importer"
    /\ pc = "commit"
    /\ IF fi = Len(json_files)
       THEN /\ hot100' = hot100 (+) pending
            /\ pending' = EmptyBag
            /\ commits' = [commits EXCEPT ![fi] = @ + 1]
       ELSE UNCHANGED <<hot100, pending, commits>>
    /\ fi' = fi + 1
    /\ pc' = "for_file"
    /\ UNCHANGED <<prog, run, connection, cursor, raised, hot100_before>>
    /\ UNCHANGED <<json_files, ei, caught, logged>>
    /\ UNCHANGED expVars

\* connection.commit() after process_json_file returned
ImpCommit ==
    /\ prog = "importer"
    /\ pc = "commit"
    /\ hot100' = hot100 (+) pending
    /\ pending' = EmptyBag
    /\ commits' = [commits EXCEPT ![fi] = @ + 1]
    /\ fi' = fi + 1
    /\ pc' = "for_file"
    /\ UNCHANGED <<prog, run, connection, cursor, raised, hot100_before>>
    /\ UNCHANGED <<json_files, ei, caught, logged>>
    /\ UNCHANGED expVars

\* connection.commit() raises: main() goes to its except clause
ImpCommitError ==
    /\ prog = "importer"
    /\ pc = "commit"
    /\ commits' = [commits EXCEPT ![fi] = @ + 1]
    /\ pc' = "rollback"
    /\ UNCHANGED <<prog, run, connection, cursor, raised, hot100, hot100_before>>
    /\ UNCHANGED <<json_files, fi, ei, caught, logged, pending>>
    /\ UNCHANGED expVars

\* ImpRollback, were the except clause of main() to commit
ImpRollbackCommits ==
    /\ prog = "importer"
    /\ pc = "rollback"
    /\ hot100' = hot100 (+) pending
    /\ pending' = EmptyBag
    /\ pc' = "finally"
    /\ UNCHANGED <<prog, run, connection, cursor, raised, hot100_before>>
    /\ UNCHANGED <<json_files, fi, ei, caught, logged, commits>>
    /\ UNCHANGED expVars

\* except Exception in main(): connection.rollback()
ImpRollback ==
    /\ prog = "importer"
    /\ pc = "rollback"
    /\ pending' = EmptyBag
    /\ pc' = "finally"
    /\ UNCHANGED <<prog, run, connection, cursor, raised, hot100, hot100_before>>
    /\ UNCHANGED <<json_files, fi, ei, caught, logged, commits>>
    /\ UNCHANGED expVars

\* the script is started again with the same arguments
ImpRerun ==
    /\ prog = "importer"
    /\ pc = "exited"
    /\ run < MaxRuns
    /\ run' = run + 1
    /\ hot100_before' = hot100
    /\ pc' = "connect"
    /\ connection' = "none"
    /\ cursor' = "none"
    /\ raised' = "none"
    /\ fi' = 1
    /\ ei' = 1
    /\ caught' = "none"
    /\ logged' = NoLogs(Len(json_files))
    /\ commits' = Zeros(Len(json_files))
    /\ UNCHANGED <<prog, hot100, pending, json_files>>
    /\ UNCHANGED expVars

----------------------------------------------------------------------------
(* The Exporter *)

\* str.replace(old, new) for a one-character old
RECURSIVE replace(_, _, _)
replace(s, old, new) ==
    IF s = <<>> THEN <<>>
    ELSE (IF Head(s) = old THEN new ELSE <<Head(s)>>) \o replace(Tail(s), old, new)

amp == <<"&", "a", "m", "p", ";">>
lt == <<"&", "l", "t", ";">>
gt == <<"&", "g", "t", ";">>

\* escape, were '&' replaced last
escapeAmpLast(s) == replace(replace(replace(s, "<", lt), ">", gt), "&", amp)

\* .replace("&", "&amp;").replace("<", "&lt;").replace(">", "&gt;")
escape(s) == replace(replace(replace(s, "&", amp), "<", lt), ">", gt)

\* create_table_row: the artist cell and the song cell of the row, or "" (here
\* the empty tuple) when str.replace is called on None and the exception is caught.
\* The two link cells are built from the unescaped values and are left out.
create_table_row(artist, song) ==
    IF artist = None \/ song = None
    THEN <<>>
    ELSE <<escape(artist), escape(song)>>

\* the characters of stored values, in code point order
Alphabet == <<"&", "<", ">", "a", "b", "s", "x", "y">>
Code(c) == CHOOSE i \in 1..Len(Alphabet) : Alphabet[i] = c

\* s sorts before t
RECURSIVE StrLess(_, _)
StrLess(s, t) ==
    IF t = <<>> THEN FALSE
    ELSE IF s = <<>> THEN TRUE
    ELSE IF Head(s) = Head(t) THEN StrLess(Tail(s), Tail(t))
    ELSE Code(Head(s)) < Code(Head(t))

\* ORDER BY on one column: NULL sorts first
ValueLess(u, v) ==
    IF v = None THEN FALSE
    ELSE IF u = None THEN TRUE
    ELSE StrLess(u, v)

\* SELECT artist, song of a stored <<song, artist>>
Select(row) == <<row[2], row[1]>>

\* RowLess, were the rows ordered by song, then artist
RowLessBySong(p, q) ==
    \/ ValueLess(p[2], q[2])
    \/ p[2] = q[2] /\ ValueLess(p[1], q[1])

\* ORDER BY artist, song on two selected rows
RowLess(p, q) ==
    \/ ValueLess(p[1], q[1])
    \/ p[1] = q[1] /\ ValueLess(p[2], q[2])

\* SELECT artist, song FROM hot100 ORDER BY artist, song
RECURSIVE OrderBy(_)
OrderBy(table) ==
    IF table = EmptyBag THEN <<>>
    ELSE LET first == CHOOSE r \in BagToSet(table) :
                          \A q \in BagToSet(table) : ~ RowLess(Select(q), Select(r))
         IN  <<Select(first)>> \o OrderBy(table (-) SetToBag({first}))

\* what path.write_text leaves at the output path
Document(rows) == [kind |-> "html", rows |-> rows]
Truncated == [kind |-> "empty", rows |-> <<>>]

\* cursor.execute(SELECT ...) and cursor.fetchall()
ExpQuery ==
    /\ prog = "exporter"
    /\ pc = "query"
    /\ fetched' = OrderBy(hot100)
    /\ ri' = 1
    /\ table_rows' = <<>>
    /\ pc' = IF hot100 = EmptyBag THEN "check" ELSE "render"
    /\ UNCHANGED <<prog, run, connection, cursor, raised, hot100, hot100_before>>
    /\ UNCHANGED impVars
    /\ UNCHANGED <<output, output_before>>

\* cursor.execute raises: except Error logs and calls sys.exit(1)
ExpQueryError ==
    /\ prog = "exporter"
    /\ pc = "query"
    /\ raised' = "SystemExit"
    /\ pc' = "finally"
    /\ UNCHANGED <<prog, run, connection, cursor, hot100, hot100_before>>
    /\ caught' = "Error"
    /\ UNCHANGED <<json_files, fi, ei, logged, commits, pending>>
    /\ UNCHANGED expVars

\* one iteration of the loop over the fetched rows
ExpRender ==
    /\ prog = "exporter"
    /\ pc = "render"
    /\ LET row == create_table_row(fetched[ri][1], fetched[ri][2])
       IN  table_rows' = IF row # <<>> THEN Append(table_rows, row) ELSE table_rows
    /\ ri' = ri + 1
    /\ pc' = IF ri < Len(fetched) THEN "render" ELSE "check"
    /\ UNCHANGED <<prog, run, connection, cursor, raised, hot100, hot100_before>>
    /\ UNCHANGED impVars
    /\ UNCHANGED <<fetched, output, output_before>>

\* ExpNoRows, were sys.exit(1) to leave main() outside its try statement
ExpNoRowsExits ==
    /\ prog = "exporter"
    /\ pc = "check"
    /\ table_rows = <<>>
    /\ raised' = "SystemExit"
    /\ pc' = "exited"
    /\ UNCHANGED <<prog, run, connection, cursor, hot100, hot100_before>>
    /\ caught' = "Exception"
    /\ UNCHANGED <<json_files, fi, ei, logged, commits, pending>>
    /\ UNCHANGED expVars

\* ExpNoRows, were an empty table written
ExpNoRowsWrites ==
    /\ prog = "exporter"
    /\ pc = "check"
    /\ table_rows = <<>>
    /\ output' = Document(table_rows)
    /\ pc' = "finally"
    /\ UNCHANGED <<prog, run, connection, cursor, raised, hot100, hot100_before>>
    /\ UNCHANGED impVars
    /\ UNCHANGED <<fetched, ri, table_rows, output_before>>

\* if not table_rows: raise; except Exception logs and calls sys.exit(1)
ExpNoRows ==
    /\ prog = "exporter"
    /\ pc = "check"
    /\ table_rows = <<>>
    /\ raised' = "SystemExit"
    /\ pc' = "finally"
    /\ UNCHANGED <<prog, run, connection, cursor, hot100, hot100_before>>
    /\ caught' = "Exception"
    /\ UNCHANGED <<json_files, fi, ei, logged, commits, pending>>
    /\ UNCHANGED expVars

\* template.format and output_path.write_text
ExpWrite ==
    /\ prog = "exporter"
    /\ pc = "check"
    /\ table_rows # <<>>
    /\ output' = Document(table_rows)
    /\ pc' = "finally"
    /\ UNCHANGED <<prog, run, connection, cursor, raised, hot100, hot100_before>>
    /\ UNCHANGED impVars
    /\ UNCHANGED <<fetched, ri, table_rows, output_before>>

\* output_path.write_text raises, before or after it truncated the file:
\* except Exception logs and calls sys.exit(1)
ExpWriteError ==
    /\ prog = "exporter"
    /\ pc = "check"
    /\ table_rows # <<>>
    /\ output' \in {output, Truncated}
    /\ raised' = "SystemExit"
    /\ pc' = "finally"
    /\ UNCHANGED <<prog, run, connection, cursor, hot100, hot100_before>>
    /\ caught' = "Exception"
    /\ UNCHANGED <<json_files, fi, ei, logged, commits, pending>>
    /\ UNCHANGED <<fetched, ri, table_rows, output_before>>

\* rows the relation may hold when the Exporter starts
StoredSongs == {None, <<"a">>, <<"b">>}
StoredArtists == {None, <<"x">>, <<"<", "x">>}
StoredRows == {<<song, artist>> : song \in StoredSongs, artist \in StoredArtists}

ExporterTables ==
    {SetToBag(S) : S \in {T \in SUBSET StoredRows : Cardinality(T) <= MaxRows}}

InitExporter ==
    /\ prog = "exporter"
    /\ pc = "connect"
    /\ run = 1
    /\ connection = "none"
    /\ cursor = "none"
    /\ raised = "none"
    /\ hot100 \in ExporterTables
    /\ hot100_before = hot100
    /\ pending = EmptyBag
    /\ json_files = <<>>
    /\ fi = 1
    /\ ei = 1
    /\ caught = "none"
    /\ logged = <<>>
    /\ commits = <<>>
    /\ fetched = <<>>
    /\ ri = 1
    /\ table_rows = <<>>
    /\ output \in {NoFile, OldFile}
    /\ output_before = output

----------------------------------------------------------------------------
(* Specifications *)

\* file lists of the command line, over the given entries
FileLists(entries) == FileListsOver(entries, MaxFiles, MaxEntries)

\* The Importer with a database that raises nothing but the uniqueness violation,
\* on files whose entries hold both fields.
InitReliable == InitImporter(FileLists(CompleteEntries))

NextReliable ==
    \/ Connect
    \/ ImpNextFile
    \/ ImpLoad
    \/ ImpInsert
    \/ ImpCommit
    \/ Finally
    \/ ImpRerun

SpecReliable == InitReliable /\ [][NextReliable]_vars

\* Both scripts, with every fault their handlers provide for.
AllEntries == {Entry(<<"a">>, <<"x">>)} \cup PartialEntries \cup {NotAnObject}

Init == InitImporter(FileLists(AllEntries)) \/ InitExporter

Next ==
    \/ Connect
    \/ ConnectError
    \/ ImpNextFile
    \/ ImpLoad
    \/ ImpInsert
    \/ ImpInsertError
    \/ ImpEntryException
    \/ ImpCommit
    \/ ImpCommitError
    \/ ImpRollback
    \/ ExpQuery
    \/ ExpQueryError
    \/ ExpRender
    \/ ExpNoRows
    \/ ExpWrite
    \/ ExpWriteError
    \/ Finally

Spec == Init /\ [][Next]_vars

\* The Importer with a database whose inserts may fail, on files whose entries
\* hold both fields.
NextInsertErrors ==
    \/ Connect
    \/ ImpNextFile
    \/ ImpLoad
    \/ ImpInsert
    \/ ImpInsertError
    \/ ImpCommit
    \/ Finally

SpecInsertErrors == InitReliable /\ [][NextInsertErrors]_vars

\* create_table_row on one fetched row of any content
Chars == {"&", "<", ">", "s"}
Strs == SeqsUpTo(Chars, MaxLen) \cup {None}

InitRow ==
    /\ prog = "exporter"
    /\ pc = "render"
    /\ run = 1
    /\ connection = "open"
    /\ cursor = "open"
    /\ raised = "none"
    /\ \E artist \in Strs, song \in Strs :
          /\ hot100 = SetToBag({<<song, artist>>})
          /\ fetched = <<(<<artist, song>>)>>
    /\ hot100_before = hot100
    /\ pending = EmptyBag
    /\ json_files = <<>>
    /\ fi = 1
    /\ ei = 1
    /\ caught = "none"
    /\ logged = <<>>
    /\ commits = <<>>
    /\ ri = 1
    /\ table_rows = <<>>
    /\ output = NoFile
    /\ output_before = NoFile

NextRow == ExpRender

SpecRow == InitRow /\ [][NextRow]_vars

----------------------------------------------------------------------------
(* Properties *)

Importing == prog = "importer"
Exporting == prog = "exporter"
FileNumbers == 1..Len(json_files)

\* the (song, artist) pairs written in the files json.load parses
InputPairs ==
    {<<e.song, e.artist>> : e \in UNION {SeqToSet(json_files[i].data) : i \in FileNumbers}}

\* the rows logged as inserted for the first n files, with their repetitions
RECURSIVE InsertedInFile(_, _)
InsertedInFile(i, k) ==
    IF k = 0 THEN EmptyBag
    ELSE LET e == json_files[i].data[k]
             before == InsertedInFile(i, k - 1)
         IN  IF logged[i][k] = "Inserted"
             THEN before (+) SetToBag({<<get(e, "song"), get(e, "artist")>>})
             ELSE before

RECURSIVE InsertedUpTo(_)
InsertedUpTo(n) ==
    IF n <= 0 THEN EmptyBag
    ELSE InsertedUpTo(n - 1) (+) InsertedInFile(n, Len(logged[n]))

C3_InvalidFileSkipped ==
    (Importing /\ pc = "exited" /\ \E j \in FileNumbers : ~ json_files[j].valid) =>
        /\ pending = EmptyBag
        /\ \A i \in FileNumbers :
              /\ commits[i] = 1
              /\ Len(logged[i]) = Len(json_files[i].data)
              /\ \A k \in 1..Len(json_files[i].data) :
                    BagIn(InsertParams(json_files[i].data[k]), hot100)

\* an invalid file first, then a file whose entries were inserted and committed
C3_Witness ==
    /\ Importing /\ pc = "exited" /\ run = 1
    /\ hot100_before = EmptyBag
    /\ Len(json_files) = 2
    /\ ~ json_files[1].valid
    /\ Len(json_files[2].data) = 2
    /\ logged[2] = <<"Inserted", "Inserted">>
    /\ BagCardinality(hot100) = 2

\* C4: in every terminal state of either script reached after the connection
\* was acquired, cursor.close() and connection.close() have been performed.
C4_Released ==
    (pc = "exited" /\ connection # "none") =>
        (cursor = "closed" /\ connection = "closed")

\* the Exporter has ended on its zero-rows abort, with both closed
C4_Witness ==
    /\ Exporting /\ pc = "exited"
    /\ caught = "Exception" /\ table_rows = <<>>
    /\ cursor = "closed" /\ connection = "closed"

\* C5: whenever the Exporter renders zero rows it ends with exit code 1 and the
\* file at the output path is as it was before the run.
C5_NoRowsNoOutput ==
    (Exporting /\ pc = "exited" /\ table_rows = <<>>) =>
        (ExitCode = 1 /\ output = output_before)

\* the Exporter has ended on an empty relation, an old file at the output path
C5_Witness ==
    /\ Exporting /\ pc = "exited"
    /\ hot100 = EmptyBag
    /\ caught = "Exception"
    /\ output = OldFile

\* a selected row with no NULL
Renders(p) == p[1] # None /\ p[2] # None

\* p does not come after q in ascending order of artist, then of song
InOrder(p, q) ==
    \/ ValueLess(p[1], q[1])
    \/ p[1] = q[1] /\ ~ ValueLess(q[2], p[2])

\* the bag of the elements of a sequence
RECURSIVE SeqToBag(_)
SeqToBag(seq) ==
    IF seq = <<>> THEN EmptyBag ELSE SetToBag({Head(seq)}) (+) SeqToBag(Tail(seq))

\* the escaping of a value, one character at a time
EscapedChar(c) ==
    IF c = "&" THEN amp ELSE IF c = "<" THEN lt ELSE IF c = ">" THEN gt ELSE <<c>>

RECURSIVE Escaped(_)
Escaped(s) == IF s = <<>> THEN <<>> ELSE EscapedChar(Head(s)) \o Escaped(Tail(s))

\* the number of elements of s that are in S
Count(s, S) == Cardinality({i \in 1..Len(s) : s[i] \in S})

\* C6, as stated: on success the document has as many rows as the relation has
\* distinct (artist, song) pairs, in ascending order of artist, then song.
C6_Original ==
    (Exporting /\ pc = "exited" /\ raised = "none") =>
        /\ Len(output.rows) = Cardinality(BagToSet(hot100))
        /\ \A i, j \in 1..Len(fetched) : i < j => InOrder(fetched[i], fetched[j])

\* C6, amended: on success the document has one row for each row of the relation
\* whose artist and song are both not NULL, in ascending order of artist, then
\* song; a row holding NULL is dropped.
C6_Amended ==
    (Exporting /\ pc = "exited" /\ raised = "none") =>
        LET shown == SelectSeq(fetched, Renders)
        IN  /\ SeqToBag([i \in 1..Len(fetched) |-> <<fetched[i][2], fetched[i][1]>>]) = hot100
            /\ output.kind = "html"
            /\ Len(output.rows) =
                  Cardinality({r \in BagToSet(hot100) : r[1] # None /\ r[2] # None})
            /\ Len(output.rows) = Len(shown)
            /\ \A i \in 1..Len(shown) :
                  output.rows[i] = <<Escaped(shown[i][1]), Escaped(shown[i][2])>>
            /\ \A i, j \in 1..Len(shown) : i < j => InOrder(shown[i], shown[j])

\* a NULL row was dropped and the rows left were written in order
C6_Witness ==
    /\ Exporting /\ pc = "exited" /\ raised = "none"
    /\ BagCardinality(hot100) = 3
    /\ Len(output.rows) = 2
    /\ \E r \in BagToSet(hot100) : r[2] = None
    /\ output.rows[1][1] # output.rows[2][1]

\* main() has left its loop by the except clause
Committing == pc \in {"rollback", "finally", "exited"} /\ connection # "none"

\* C7: the Importer calls commit once per file, after all entries of the file
\* were attempted: none while the file's entries are attempted, exactly one
\* before the first attempt of the next file, and no entry of a later file is
\* attempted before it.
C7_CommitPerFile ==
    Importing =>
        \A j \in FileNumbers :
            /\ j < fi => commits[j] = 1
            /\ j = fi => commits[j] = (IF Committing THEN 1 ELSE 0)
            /\ j > fi => (commits[j] = 0 /\ logged[j] = <<>>)

\* the second file's entries are being attempted, the first file's were
\* committed once
C7_Witness ==
    /\ Importing /\ pc = "for_entry" /\ fi = 2 /\ ei = 2
    /\ Len(logged[1]) = 1
    /\ Len(logged[2]) = 1
    /\ commits = <<1, 0>>

\* the file process_json_file ended on: the one just committed, or the current
EndedFile == IF pc = "for_file" THEN fi - 1 ELSE fi

\* C8, as stated: after an exception raised while looping over the entries of a
\* file, the rows inserted from that file are not persisted, the rows committed
\* for the files before it are.
C8_Original ==
    (Importing /\ caught = "exception" /\ pc # "commit") =>
        hot100 = hot100_before (+) InsertedUpTo(EndedFile - 1)

\* C8, amended: a failure of connection.commit() in main()'s loop triggers a
\* rollback of the current transaction only: when the Importer has ended,
\* hot100 holds the rows inserted from the files whose commit succeeded, those
\* before an exception raised while looping over a file's entries included, and
\* none from the file whose commit failed or from the files after it.
C8_Amended ==
    (Importing /\ pc = "exited" /\ connection # "none") =>
        /\ hot100 = hot100_before (+) InsertedUpTo(fi - 1)
        /\ pending = EmptyBag
        /\ \A j \in FileNumbers : j > fi => logged[j] = <<>>

\* the commit of the second file failed after rows were inserted from both files
C8_Witness ==
    /\ Importing /\ pc = "exited" /\ fi = 2
    /\ Len(json_files) = 2
    /\ commits = <<1, 1>>
    /\ "Inserted" \in SeqToSet(logged[1])
    /\ "Inserted" \in SeqToSet(logged[2])
    /\ hot100 = hot100_before (+) InsertedUpTo(1)

\* C9: in a row create_table_row renders, the artist cell and the song cell hold
\* the value with each '&', '<', '>' replaced by '&amp;', '&lt;', '&gt;': no
\* '<' or '>' is left, and every '&' of a cell stands for one '&', '<' or '>'
\* of the value.
C9_CellsEscaped ==
    (Exporting /\ table_rows # <<>> /\ Len(fetched) = 1) =>
        \A c \in 1..2 :
            LET value == fetched[1][c]
                cell == table_rows[1][c]
            IN  /\ cell = Escaped(value)
                /\ Count(cell, {"<", ">"}) = 0
                /\ Count(cell, {"&"}) = Count(value, {"&", "<", ">"})

\* <s> is rendered as &lt;s&gt;
C9_Witness ==
    /\ Exporting /\ table_rows # <<>>
    /\ fetched[1][1] = <<"<", "s", ">">>
    /\ table_rows[1][1] = <<"&", "l", "t", ";", "s", "&", "g", "t", ";">>
    /\ fetched[1][2] = <<"&", "<">>
    /\ table_rows[1][2] = <<"&", "a", "m", "p", ";", "&", "l", "t", ";">>

\* C10: an insertion fault that is no uniqueness violation ends nothing: every
\* entry of every parsed file is attempted, every file is committed, and the
\* rows inserted before and after the fault are in hot100 when the Importer ends.
C10_InsertErrorContinues ==
    (Importing /\ pc = "exited") =>
        /\ \A i \in FileNumbers :
              /\ Len(logged[i]) = Len(json_files[i].data)
              /\ commits[i] = 1
        /\ hot100 = hot100_before (+) InsertedUpTo(Len(json_files))
        /\ pending = EmptyBag

\* a fault between two inserted entries of the first file, and a file after it
C10_Witness ==
    /\ Importing /\ pc = "exited"
    /\ Len(json_files) = 2
    /\ logged[1] = <<"Inserted", "Error inserting record", "Inserted">>
    /\ commits = <<1, 1>>
    /\ BagCardinality(hot100) = BagCardinality(hot100_before) + 2

====
